---- MODULE Spec2Model ----
(***************************************************************************)
(* The fixed-size thread pool of purple_blox (src/purple_blox/src/pool.rs), *)
(* and, further down, the cacher and the iterator factories of my_rusttools *)
(* (src/my_rusttools/src/gcacher.rs, factories/iter_factories.rs).          *)
(*                                                                         *)
(* One caller thread constructs the pool (ThreadPool::new), submits tasks   *)
(* (ThreadPool::execute) and finally drops it (impl Drop for ThreadPool).   *)
(* Every worker thread runs the loop of Worker::new.  The mpsc channel is   *)
(* the sequence queue; its Receiver sits behind Arc<Mutex<..>>, modelled by *)
(* lockHolder and poisoned.  Worker ids are 1..threads here (0..threads-1   *)
(* in the source).                                                          *)
(*                                                                         *)
(* Each library has its own specification over its own variables: Spec,     *)
(* FairSpec and SharedSpec for the pool, CacherSpec for GCacher, SieveSpec  *)
(* for sieve_primes and IterSpec for fizzbuzz and repeat_interval.  The     *)
(* variables of the libraries a specification does not use keep their       *)
(* initial values.                                                          *)
(***************************************************************************)
EXTENDS Naturals, Sequences, FiniteSets

\* Largest thread count handed to ThreadPool::new.
MaxThreads == 2

\* Largest number of execute calls in one behaviour.
MaxTasks == 3

\* Number of threads that share the pool (&ThreadPool) and call execute.
MaxCallers == 2

\* Largest number of execute calls made through the shared pool.
MaxSharedCalls == 2

VARIABLES
    pc,          \* position of the caller thread
    threads,     \* the argument of ThreadPool::new
    error,       \* kind of the PoolInitialisationError returned, or "none"
    pipeline,    \* id of the channel whose Sender the pool holds (0: no channel)
    senderAlive, \* TRUE while the Sender `pipeline` has not been dropped
    workers,     \* the worker threads, in the order of ThreadPool.workers
    handles,     \* handles[w]: Worker.0 is Some(JoinHandle)
    queue,       \* messages sent on the channel and not yet received
    lockHolder,  \* worker holding the MutexGuard of the Receiver, 0 if free
    poisoned,    \* the Mutex is poisoned
    sent,        \* sent[m]: the m-th message ever sent
    received,    \* received[m]: how many times message m was returned by recv
    invoked,     \* invoked[m]: how many times the job of message m was called
    joined,      \* number of worker threads drop has joined
    callers      \* callers[c]: caller thread c is inside execute ("ok" or
                 \* "faulty": the job it passed), "idle", or "panicked"

\* GCacher<K, F, V> with K = V = usize.
VARIABLES
    cache,       \* GCacher.cache: the HashMap, a function from its keys
    capacity,    \* the capacity of the HashMap
    instanced,   \* instanced[k]: calls of the instancer for key k since k
                 \* was last absent from the cache
    lastCall     \* the last method called on the cacher: its name, its key
                 \* argument, what it returned, whether the instancer ran

cacherVars == <<cache, capacity, instanced, lastCall>>

\* sieve_primes(upper_bound) and the iterator it returns.
VARIABLES
    sievePc,        \* "call", "sieving", "yielding" (the iterator is
                    \* returned), "done" (next has returned None) or "idle"
    upper_bound,    \* the argument
    primes_markers, \* the vector; primes_markers[i + 1] is the marker of i
    successor,      \* the item iter::successors is at: <<i, x>>, or <<>>
    position,       \* the next index enumerate() hands to filter_map
    yielded         \* the items the iterator has returned so far

sieveVars == <<sievePc, upper_bound, primes_markers, successor, position,
               yielded>>

\* fizzbuzz() and repeat_interval(repeat, interval) and their iterators.
VARIABLES
    iterPc,          \* "call", "iterating", "panicked" or "idle"
    factory,         \* the function called and its arguments
    overflow_checks, \* the build has overflow checks on (debug profile)
    range,           \* RangeFrom.start of `1usize..`
    fizz,            \* the Cycle of repeat_interval (of "Fizz" in fizzbuzz)
    buzz,            \* the Cycle of repeat_interval("Buzz", 5) in fizzbuzz
    items,           \* number of items next() has returned so far
    item             \* the item next() returned last

iterVars == <<iterPc, factory, overflow_checks, range, fizz, buzz, items, item>>

utilVars == <<cacherVars, sieveVars, iterVars>>

poolVars == <<pc, threads, error, pipeline, senderAlive, workers, handles, queue,
              lockHolder, poisoned, sent, received, invoked, joined, callers>>

vars == <<pc, threads, error, pipeline, senderAlive, workers, handles, queue,
          lockHolder, poisoned, sent, received, invoked, joined, callers,
          utilVars>>

\* Message = ControlFlow<(), Box<dyn FnOnce()>>: Break(()) or Continue(job).
\* A job either returns or panics when called (faulty); from is the caller
\* thread that sent the message (0: drop).
BreakMsg(id) == [kind |-> "Break", id |-> id, faulty |-> FALSE, from |-> 0]

ContinueMsg(id, faulty, c) ==
    [kind |-> "Continue", id |-> id, faulty |-> faulty, from |-> c]

\* A worker thread: where it is in its loop, the Arc<Mutex<Receiver>> it was
\* given (channel id), the message it last received, the Breaks it consumed.
NewWorker(rx) == [pc |-> "lock", inbox |-> rx, job |-> 0, breaks |-> 0]

Workers == 1..Len(workers)

\* The thread of worker w has ended (returned, or unwound from a panic).
Finished(w) == workers[w].pc \in {"exited", "panicked"}

\* The Receiver lives in an Arc shared by the worker closures only (the `rx`
\* of ThreadPool::new is dropped when new returns): it is dropped with the
\* last worker thread.
ReceiverAlive == \E w \in Workers : ~Finished(w)

\* No cacher has been constructed.
CacherIdle ==
    /\ cache = <<>>
    /\ capacity = 0
    /\ instanced = <<>>
    /\ lastCall = [op |-> "idle", key |-> <<>>, ret |-> <<>>, ran |-> FALSE]

\* sieve_primes is not called.
SieveIdle ==
    /\ sievePc = "idle"
    /\ upper_bound = 0
    /\ primes_markers = <<>>
    /\ successor = <<>>
    /\ position = 0
    /\ yielded = <<>>

\* No iterator factory is called.
IterIdle ==
    /\ iterPc = "idle"
    /\ factory = [fn |-> "none", repeat |-> <<>>, interval |-> 0]
    /\ overflow_checks = FALSE
    /\ range = 0
    /\ fizz = <<>>
    /\ buzz = <<>>
    /\ items = 0
    /\ item = <<>>

\* The caller thread before ThreadPool::new.
PoolInit ==
    /\ pc = "start"
    /\ threads = 0
    /\ error = "none"
    /\ pipeline = 0
    /\ senderAlive = FALSE
    /\ workers = <<>>
    /\ handles = <<>>
    /\ queue = <<>>
    /\ lockHolder = 0
    /\ poisoned = FALSE
    /\ sent = <<>>
    /\ received = <<>>
    /\ invoked = <<>>
    /\ joined = 0
    /\ callers = [c \in 1..MaxCallers |-> "idle"]

Init == PoolInit /\ CacherIdle /\ SieveIdle /\ IterIdle

\* Mutant of ValidThreads: the check of the thread count is left out.
ValidThreadsAny(n) == n >= 0

\* `match threads > 0` of ThreadPool::new.
ValidThreads(n) == n > 0

\* Mutant of WorkerIds: the inclusive range `(0..=threads)`.
WorkerIdsInclusive(n) == 1..(n + 1)

\* `(0..threads)`: the workers new spawns (numbered from 1 here).
WorkerIds(n) == 1..n

\* ThreadPool::new(n)
New(n) ==
    /\ pc = "start"
    /\ threads' = n
    /\ IF ValidThreads(n)
       THEN /\ pc' = "live"
            /\ pipeline' = 1
            /\ senderAlive' = TRUE
            /\ workers' = [i \in WorkerIds(n) |-> NewWorker(1)]
            /\ handles' = [i \in WorkerIds(n) |-> TRUE]
            /\ error' = error
       ELSE /\ pc' = "err"
            /\ error' = "ZeroThreads"
            /\ UNCHANGED <<pipeline, senderAlive, workers, handles>>
    /\ UNCHANGED <<queue, lockHolder, poisoned, sent, received, invoked, joined>>
    /\ UNCHANGED <<callers, utilVars>>

\* Mutant of Send: a rendezvous-style bounded channel (sync_channel), whose
\* send waits while a message is queued.
SendBounded(msg) ==
    /\ Len(queue) < 1
    /\ queue' = Append(queue, msg)
    /\ sent' = Append(sent, msg)
    /\ received' = Append(received, 0)
    /\ invoked' = Append(invoked, 0)

\* Mutant of Send: the channel is a stack, send puts the message in front.
SendFront(msg) ==
    /\ queue' = <<msg>> \o queue
    /\ sent' = Append(sent, msg)
    /\ received' = Append(received, 0)
    /\ invoked' = Append(invoked, 0)

\* Mutant of Send: the message is put into the channel twice.
SendDuplicating(msg) ==
    /\ queue' = queue \o <<msg, msg>>
    /\ sent' = Append(sent, msg)
    /\ received' = Append(received, 0)
    /\ invoked' = Append(invoked, 0)

\* Sender::send: appends to the channel, fails once the Receiver is dropped.
Send(msg) ==
    /\ queue' = Append(queue, msg)
    /\ sent' = Append(sent, msg)
    /\ received' = Append(received, 0)
    /\ invoked' = Append(invoked, 0)

\* Mutant of PoolUsable: the pool can still be borrowed while drop runs.
PoolUsableInDrop == pc \in {"live", "sending", "joining"}

\* execute borrows the pool (&self): the pool exists and drop, which needs
\* it exclusively (&mut self), has not been entered.
PoolUsable == pc = "live"

\* ThreadPool::execute(f): send(Continue(f)).unwrap()
Execute(faulty) ==
    /\ PoolUsable
    /\ Len(sent) < MaxTasks
    /\ IF ReceiverAlive
       THEN /\ Send(ContinueMsg(Len(sent) + 1, faulty, 1))
            /\ pc' = pc
       ELSE /\ pc' = "executePanicked"
            /\ UNCHANGED <<queue, sent, received, invoked>>
    /\ UNCHANGED <<threads, error, pipeline, senderAlive, workers, handles,
                   lockHolder, poisoned, joined>>
    /\ UNCHANGED <<callers, utilVars>>

\* Callers that are inside execute.
InExecute == {c \in 1..MaxCallers : callers[c] \in {"ok", "faulty"}}

\* Drop::drop is entered: the pool goes out of scope, which needs every
\* borrow of it to have ended.
Drop ==
    /\ pc = "live"
    /\ InExecute = {}
    /\ pc' = "sending"
    /\ UNCHANGED <<threads, error, pipeline, senderAlive, workers, handles, queue,
                   lockHolder, poisoned, sent, received, invoked, joined>>
    /\ UNCHANGED <<callers, utilVars>>

\* Number of Break messages sent so far.
BreaksSent == Cardinality({m \in 1..Len(sent) : sent[m].kind = "Break"})

\* Mutant of BreaksToSend: one Break too few.
BreaksToSendFewer == Len(workers) - 1

\* Mutant of BreaksToSend: one Break too many.
BreaksToSendMore == Len(workers) + 1

\* Number of iterations of `for _ in &self.workers`.
BreaksToSend == Len(workers)

\* One iteration of `for _ in &self.workers { send(Break(())).unwrap() }`.
\* A panic unwinds out of drop and the fields of the pool are dropped.
SendBreak ==
    /\ pc = "sending"
    /\ BreaksSent < BreaksToSend
    /\ IF ReceiverAlive
       THEN /\ Send(BreakMsg(Len(sent) + 1))
            /\ pc' = IF BreaksSent + 1 = BreaksToSend THEN "joining" ELSE "sending"
            /\ UNCHANGED senderAlive
       ELSE /\ pc' = "dropPanicked"
            /\ senderAlive' = FALSE
            /\ UNCHANGED <<queue, sent, received, invoked>>
    /\ UNCHANGED <<threads, error, pipeline, workers, handles,
                   lockHolder, poisoned, joined>>
    /\ UNCHANGED <<callers, utilVars>>

\* Mutant of JoinReturns: the thread is detached instead of waited for.
JoinReturnsAtOnce(w) == TRUE

\* JoinHandle::join on the thread of worker w returns once the thread has ended.
JoinReturns(w) == Finished(w)

\* Mutant of JoinIsErr: the result of join is ignored (`let _ = x.join()`).
JoinIsErrIgnored(w) == FALSE

\* JoinHandle::join returns Err when the thread of worker w panicked.
JoinIsErr(w) == workers[w].pc = "panicked"

\* One iteration of `.filter_map(|x| x.0.take()).for_each(|x| x.join().unwrap())`:
\* the handle of the next worker is taken and join blocks until its thread has
\* ended; join is Err when the thread panicked, and the unwrap panics.
Join ==
    /\ pc = "joining"
    /\ joined < Len(workers)
    /\ JoinReturns(joined + 1)
    /\ handles' = [handles EXCEPT ![joined + 1] = FALSE]
    /\ IF JoinIsErr(joined + 1)
       THEN /\ pc' = "dropPanicked"
            /\ senderAlive' = FALSE
            /\ UNCHANGED joined
       ELSE /\ joined' = joined + 1
            /\ UNCHANGED <<pc, senderAlive>>
    /\ UNCHANGED <<threads, error, pipeline, workers, queue,
                   lockHolder, poisoned, sent, received, invoked>>
    /\ UNCHANGED <<callers, utilVars>>

\* drop returns after the last join; the fields (the Sender) are dropped.
DropReturn ==
    /\ pc = "joining"
    /\ joined = Len(workers)
    /\ pc' = "done"
    /\ senderAlive' = FALSE
    /\ UNCHANGED <<threads, error, pipeline, workers, handles, queue,
                   lockHolder, poisoned, sent, received, invoked, joined>>
    /\ UNCHANGED <<callers, utilVars>>

\* Mutant of LockFree: the Receiver is shared without a Mutex.
LockFreeAlways == TRUE

\* Mutex::lock returns only while no other thread holds the guard.
LockFree == lockHolder = 0

\* inbox.lock().unwrap(): blocks while another worker holds the guard; a
\* poisoned mutex makes the unwrap panic.
Lock(w) ==
    /\ workers[w].pc = "lock"
    /\ LockFree
    /\ IF poisoned
       THEN /\ workers' = [workers EXCEPT ![w].pc = "panicked"]
            /\ UNCHANGED lockHolder
       ELSE /\ workers' = [workers EXCEPT ![w].pc = "recv"]
            /\ lockHolder' = w
    /\ UNCHANGED <<pc, threads, error, pipeline, senderAlive, handles, queue,
                   poisoned, sent, received, invoked, joined>>
    /\ UNCHANGED <<callers, utilVars>>

\* Mutant of Dequeue: recv returns the first message without removing it.
DequeueKeep(q) == q

\* Mutant of Dequeue: recv drains the channel, the messages behind the one
\* it returns are thrown away.
DequeueAll(q) == <<>>

\* What recv leaves in the channel: the message it returns is removed.
Dequeue(q) == Tail(q)

\* Mutant of HolderAfterRecv: the guard is bound to a variable that lives
\* through the match, so the job runs with the Receiver still locked.
HolderAfterRecvKept(w) == w

\* Holder of the guard once `let message = ...;` has ended: the guard is a
\* temporary of that statement and is dropped with it.
HolderAfterRecv(w) == 0

\* Mutant of RecvReturns: recv_timeout in place of recv, which gives up (Err)
\* although the channel is only empty.
RecvReturnsOnTimeout == TRUE

\* Receiver::recv returns once a message is queued (Ok), or once the channel
\* is empty with its Sender dropped (Err); until then it blocks.
RecvReturns == queue # <<>> \/ ~senderAlive

\* .recv().unwrap() under the guard, then the match on the message.  recv
\* blocks while the channel is empty and a Sender lives; it is Err when the
\* channel is empty and disconnected, and the unwrap then panics with the
\* guard held (poisoning the mutex).  The guard is dropped at the end of the
\* `let message = ...;` statement, before the job is called.
Recv(w) ==
    /\ workers[w].pc = "recv"
    /\ lockHolder = w
    /\ workers[w].inbox = pipeline
    /\ RecvReturns
    /\ lockHolder' = HolderAfterRecv(w)
    /\ IF queue # <<>>
       THEN LET msg == Head(queue) IN
            /\ queue' = Dequeue(queue)
            /\ received' = [received EXCEPT ![msg.id] = @ + 1]
            /\ IF msg.kind = "Continue"
               THEN /\ workers' = [workers EXCEPT ![w].pc = "job", ![w].job = msg.id]
                    /\ invoked' = [invoked EXCEPT ![msg.id] = @ + 1]
               ELSE /\ workers' = [workers EXCEPT ![w].pc = "exited",
                                                  ![w].breaks = @ + 1]
                    /\ UNCHANGED invoked
            /\ UNCHANGED poisoned
       ELSE /\ workers' = [workers EXCEPT ![w].pc = "panicked"]
            /\ poisoned' = TRUE
            /\ UNCHANGED <<queue, received, invoked>>
    /\ UNCHANGED <<pc, threads, error, pipeline, senderAlive, handles,
                   sent, joined>>
    /\ UNCHANGED <<callers, utilVars>>

\* Mutant of FinishJob: no `loop`, the thread ends after its first job.
FinishJobNoLoop(w) ==
    /\ workers[w].pc = "job"
    /\ ~sent[workers[w].job].faulty
    /\ workers' = [workers EXCEPT ![w].pc = "exited"]
    /\ UNCHANGED <<pc, threads, error, pipeline, senderAlive, handles, queue,
                   lockHolder, poisoned, sent, received, invoked, joined>>
    /\ UNCHANGED <<callers, utilVars>>

\* job() returns: back to the top of the loop.
FinishJob(w) ==
    /\ workers[w].pc = "job"
    /\ ~sent[workers[w].job].faulty
    /\ workers' = [workers EXCEPT ![w].pc = "lock"]
    /\ UNCHANGED <<pc, threads, error, pipeline, senderAlive, handles, queue,
                   lockHolder, poisoned, sent, received, invoked, joined>>
    /\ UNCHANGED <<callers, utilVars>>

\* job() panics: the thread unwinds and ends; no guard is held.
JobPanics(w) ==
    /\ workers[w].pc = "job"
    /\ sent[workers[w].job].faulty
    /\ workers' = [workers EXCEPT ![w].pc = "panicked"]
    /\ UNCHANGED <<pc, threads, error, pipeline, senderAlive, handles, queue,
                   lockHolder, poisoned, sent, received, invoked, joined>>
    /\ UNCHANGED <<callers, utilVars>>

Next ==
    \/ \E n \in 0..MaxThreads : New(n)
    \/ \E faulty \in BOOLEAN : Execute(faulty)
    \/ Drop
    \/ SendBreak
    \/ Join
    \/ DropReturn
    \/ \E w \in Workers : Lock(w)
    \/ \E w \in Workers : Recv(w)
    \/ \E w \in Workers : FinishJob(w)
    \/ \E w \in Workers : JobPanics(w)

Spec == Init /\ [][Next]_vars

\* Mutant of SendFrom: the tail of the channel is written without
\* synchronisation, a send overwrites the last message queued.
SendFromUnsynchronised(c, msg) ==
    /\ queue' = IF queue = <<>> THEN <<msg>>
                ELSE [queue EXCEPT ![Len(queue)] = msg]
    /\ sent' = Append(sent, msg)
    /\ received' = Append(received, 0)
    /\ invoked' = Append(invoked, 0)

\* Sender::send called by caller thread c through the shared &ThreadPool:
\* the channel serialises concurrent sends.
SendFrom(c, msg) == Send(msg)

\* Caller thread c enters execute(f) on the shared pool and boxes the job.
ExecuteCall(c, faulty) ==
    /\ PoolUsable
    /\ callers[c] = "idle"
    /\ Len(sent) + Cardinality(InExecute) < MaxSharedCalls
    /\ callers' = [callers EXCEPT ![c] = IF faulty THEN "faulty" ELSE "ok"]
    /\ UNCHANGED <<pc, threads, error, pipeline, senderAlive, workers, handles,
                   queue, lockHolder, poisoned, sent, received, invoked, joined>>
    /\ UNCHANGED utilVars

\* send(Continue(f)).unwrap() of caller thread c, and the return of execute;
\* the unwrap panics in that thread once the Receiver is dropped.
ExecuteSend(c) ==
    /\ c \in InExecute
    /\ IF ReceiverAlive
       THEN /\ SendFrom(c, ContinueMsg(Len(sent) + 1, callers[c] = "faulty", c))
            /\ callers' = [callers EXCEPT ![c] = "idle"]
       ELSE /\ callers' = [callers EXCEPT ![c] = "panicked"]
            /\ UNCHANGED <<queue, sent, received, invoked>>
    /\ UNCHANGED <<pc, threads, error, pipeline, senderAlive, workers, handles,
                   lockHolder, poisoned, joined>>
    /\ UNCHANGED utilVars

\* The pool shared by several caller threads that call execute concurrently.
NextShared ==
    \/ \E n \in 0..MaxThreads : New(n)
    \/ \E c \in 1..MaxCallers, faulty \in BOOLEAN : ExecuteCall(c, faulty)
    \/ \E c \in 1..MaxCallers : ExecuteSend(c)
    \/ Drop
    \/ SendBreak
    \/ Join
    \/ DropReturn
    \/ \E w \in Workers : Lock(w)
    \/ \E w \in Workers : Recv(w)
    \/ \E w \in Workers : FinishJob(w)
    \/ \E w \in Workers : JobPanics(w)

SharedSpec == Init /\ [][NextShared]_vars

\* One step of the thread of worker w.
WorkerStep(w) ==
    /\ w \in Workers
    /\ Lock(w) \/ Recv(w) \/ FinishJob(w) \/ JobPanics(w)

\* The threads are scheduled fairly: a worker thread that can take a step
\* takes one, and the caller, once inside drop, keeps running.  Whether and
\* when the caller calls execute or drops the pool is up to the caller.
FairSpec ==
    /\ Spec
    /\ \A w \in 1..MaxThreads : WF_vars(WorkerStep(w))
    /\ WF_vars(SendBreak)
    /\ WF_vars(Join)
    /\ WF_vars(DropReturn)

\* Some submitted task panics when called.
FaultySubmitted == \E m \in 1..Len(sent) : sent[m].faulty

\* Message m has been sent and is a Continue (a submitted task).
Submitted(m) == m <= Len(sent) /\ sent[m].kind = "Continue"

----------------------------------------------------------------------------
(***************************************************************************)
(* GCacher (src/my_rusttools/src/gcacher.rs): a HashMap behind a struct,    *)
(* filled through value_from by the instancer closure.  Keys and values are *)
(* usize; the instancer is the closure |x| x * x of the documentation.      *)
(***************************************************************************)

\* Largest key handed to the cacher.
MaxKey == 2

\* Largest capacity the HashMap is taken to.
MaxCapacity == 4

\* Calls of the instancer for one key, since the key was last absent, up to
\* which value_from is followed.
MaxInstanced == 2

Keys == 0..MaxKey

\* The closure given to GCacher::new: it depends on its parameter only.
Instancer(k) == k * k

\* HashMap::len
Size(c) == Cardinality(DOMAIN c)

\* The HashMap c without key k.
Without(c, k) == [x \in DOMAIN c \ {k} |-> c[x]]

\* The HashMap c with v stored under k.
Inserted(c, k, v) == [x \in DOMAIN c \cup {k} |-> IF x = k THEN v ELSE c[x]]

\* The empty HashMap.
EmptyMap == [x \in {} |-> 0]

\* What a method call leaves in lastCall.
Call(op, key, ret, ran) == [op |-> op, key |-> key, ret |-> ret, ran |-> ran]

\* instanced after the keys in gone have left the cache.
Forget(gone) == [k \in Keys |-> IF k \in gone THEN 0 ELSE instanced[k]]

\* GCacher::new(instancer) and GCacher::with_capacity(instancer, capacity):
\* an empty HashMap of at least the capacity asked for.
CacherInit ==
    /\ cache = EmptyMap
    /\ capacity \in 0..MaxCapacity
    /\ instanced = [k \in Keys |-> 0]
    /\ lastCall = Call("new", <<>>, <<>>, FALSE)

\* Mutant of Vacant: the entry is taken for vacant although the key is
\* cached, so the instancer runs on every call.
VacantAlways(c, k) == TRUE

\* HashMap::entry(k) is Entry::Vacant.
Vacant(c, k) == k \notin DOMAIN c

\* GCacher::value_from(val): entry(val).or_insert_with_key(&self.instancer).
\* A vacant entry is filled with instancer(&val); the HashMap grows when it
\* is full.  The reference returned points at the value in the cache.
ValueFrom(k) ==
    /\ instanced[k] < MaxInstanced
    /\ LET vacant == Vacant(cache, k) IN
       /\ cache' = IF vacant THEN Inserted(cache, k, Instancer(k)) ELSE cache
       /\ instanced' = IF vacant THEN [instanced EXCEPT ![k] = @ + 1]
                       ELSE instanced
       /\ capacity' \in IF vacant /\ Size(cache) = capacity
                        THEN (Size(cache) + 1)..MaxCapacity
                        ELSE {capacity}
       /\ lastCall' = Call("value_from", <<k>>, <<cache'[k]>>, vacant)
    /\ UNCHANGED <<poolVars, sieveVars, iterVars>>

\* GCacher::clear: every entry is removed, the memory is kept.
Clear ==
    /\ cache' = EmptyMap
    /\ instanced' = Forget(Keys)
    /\ lastCall' = Call("clear", <<>>, <<>>, FALSE)
    /\ UNCHANGED <<capacity, poolVars, sieveVars, iterVars>>

\* GCacher::drain: every entry is removed and handed out by the Drain
\* iterator (also when the iterator is dropped early), the memory is kept.
Drain ==
    /\ cache' = EmptyMap
    /\ instanced' = Forget(Keys)
    /\ lastCall' = Call("drain", <<>>, cache, FALSE)
    /\ UNCHANGED <<capacity, poolVars, sieveVars, iterVars>>

\* GCacher::reserve(additional): room for additional more entries.
Reserve(additional) ==
    /\ Size(cache) + additional <= MaxCapacity
    /\ capacity' \in IF capacity >= Size(cache) + additional
                     THEN {capacity}
                     ELSE (Size(cache) + additional)..MaxCapacity
    /\ lastCall' = Call("reserve", <<>>, <<>>, FALSE)
    /\ UNCHANGED <<cache, instanced, poolVars, sieveVars, iterVars>>

\* GCacher::try_reserve(additional): as reserve, returning Ok(()).
TryReserve(additional) ==
    /\ Size(cache) + additional <= MaxCapacity
    /\ capacity' \in IF capacity >= Size(cache) + additional
                     THEN {capacity}
                     ELSE (Size(cache) + additional)..MaxCapacity
    /\ lastCall' = Call("try_reserve", <<>>, <<"Ok">>, FALSE)
    /\ UNCHANGED <<cache, instanced, poolVars, sieveVars, iterVars>>

\* GCacher::shrink_to_fit: the capacity shrinks, not below the length.
ShrinkToFit ==
    /\ capacity' \in Size(cache)..capacity
    /\ lastCall' = Call("shrink_to_fit", <<>>, <<>>, FALSE)
    /\ UNCHANGED <<cache, instanced, poolVars, sieveVars, iterVars>>

\* GCacher::shrink_to(min_capacity): the capacity shrinks, not below the
\* length nor below min_capacity; nothing happens when it is below already.
ShrinkTo(min_capacity) ==
    /\ LET floor == IF Size(cache) > min_capacity THEN Size(cache)
                    ELSE min_capacity
       IN  capacity' \in IF capacity >= floor THEN floor..capacity
                         ELSE {capacity}
    /\ lastCall' = Call("shrink_to", <<>>, <<>>, FALSE)
    /\ UNCHANGED <<cache, instanced, poolVars, sieveVars, iterVars>>

\* GCacher::remove(k): the value of k, if any, is removed and returned.
Remove(k) ==
    /\ cache' = Without(cache, k)
    /\ instanced' = Forget({k})
    /\ lastCall' = Call("remove", <<k>>,
                        IF k \in DOMAIN cache THEN <<cache[k]>> ELSE <<>>, FALSE)
    /\ UNCHANGED <<capacity, poolVars, sieveVars, iterVars>>

\* GCacher::remove_entry(k): as remove, returning the key with the value.
RemoveEntry(k) ==
    /\ cache' = Without(cache, k)
    /\ instanced' = Forget({k})
    /\ lastCall' = Call("remove_entry", <<k>>,
                        IF k \in DOMAIN cache THEN <<k, cache[k]>> ELSE <<>>, FALSE)
    /\ UNCHANGED <<capacity, poolVars, sieveVars, iterVars>>

\* The closures U: FnMut(&K, &mut V) -> bool handed to retain: a closure
\* keeps the keys in keep, and, having the value by mutable reference, either
\* leaves it alone or writes to it (`*v = 0`).
RetainClosures == [keep : SUBSET Keys, writes : BOOLEAN]

\* The value of an entry after the closure f was called on it.
AfterClosure(f, v) == IF f.writes THEN 0 ELSE v

\* GCacher::retain(f): HashMap::retain calls f(&k, &mut v) on every entry
\* and removes the entries for which it returns false.
Retain(f) ==
    /\ cache' = [k \in DOMAIN cache \cap f.keep |-> AfterClosure(f, cache[k])]
    /\ instanced' = Forget(Keys \ f.keep)
    /\ lastCall' = Call("retain", <<>>, <<>>, FALSE)
    /\ UNCHANGED <<capacity, poolVars, sieveVars, iterVars>>

CacherNext ==
    \/ \E k \in Keys : ValueFrom(k)
    \/ Clear
    \/ Drain
    \/ \E additional \in 0..MaxCapacity : Reserve(additional)
    \/ \E additional \in 0..MaxCapacity : TryReserve(additional)
    \/ ShrinkToFit
    \/ \E min_capacity \in 0..MaxCapacity : ShrinkTo(min_capacity)
    \/ \E k \in Keys : Remove(k)
    \/ \E k \in Keys : RemoveEntry(k)
    \/ \E f \in RetainClosures : Retain(f)

CacherStart == PoolInit /\ CacherInit /\ SieveIdle /\ IterIdle

CacherSpec == CacherStart /\ [][CacherNext]_vars

----------------------------------------------------------------------------
(***************************************************************************)
(* The iterator factories (src/my_rusttools/src/factories/                  *)
(* iter_factories.rs).  usize is modelled UsizeBits wide, so that the       *)
(* overflow outcomes of its checked and unchecked arithmetic occur within   *)
(* the inputs.  An Option is a sequence: <<>> is None, <<v>> is Some(v).    *)
(* Memory is not modelled: the vector of markers is taken to be allocated.  *)
(***************************************************************************)

\* Width of usize in bits.
UsizeBits == 6

\* usize::MAX
UsizeMax == 2^UsizeBits - 1

\* usize::checked_add
CheckedAdd(a, b) == IF a + b > UsizeMax THEN <<>> ELSE <<a + b>>

\* usize::checked_pow
CheckedPow(a, e) == IF a^e > UsizeMax THEN <<>> ELSE <<a^e>>

\* Option::unwrap_or
UnwrapOr(opt, default) == IF opt = <<>> THEN default ELSE opt[1]

\* sieve_primes is called with any usize.
SieveInit ==
    /\ sievePc = "call"
    /\ upper_bound \in 0..UsizeMax
    /\ primes_markers = <<>>
    /\ successor = <<>>
    /\ position = 0
    /\ yielded = <<>>

\* The bound up to which the sieving loop is skipped.
SkipSievingUpTo == 8

\* Mutant of NeedsSieving: the loop is skipped for the bound 9 too.
NeedsSievingFrom10(n) == n > SkipSievingUpTo + 1

\* `if upper_bound > 8`
NeedsSieving(n) == n > SkipSievingUpTo

\* `vec![true; upper_bound.checked_add(1).unwrap_or(upper_bound)]` with
\* `.iter_mut().take(2).for_each(|x| *x = false)`: indexes 0 and 1 unmarked.
InitialMarkers(n) ==
    [p \in 1..UnwrapOr(CheckedAdd(n, 1), n) |-> p > 2]

\* The marker of index i.
Marked(markers, i) == markers[i + 1]

\* `.iter_mut().skip(x).step_by(i).for_each(|y| *y = false)`
Unmark(markers, x, i) ==
    [p \in 1..Len(markers) |->
        IF p - 1 >= x /\ (p - 1 - x) % i = 0 THEN FALSE ELSE markers[p]]

\* validate_multiple_bound
ValidateMultipleBound(i) == i <= upper_bound

\* next_sucessor: the odd index after i with its square, or None when the
\* square overflows or exceeds the bound.
NextSuccessor(i) ==
    LET next == i + 2
        square == CheckedPow(next, 2)
    IN  IF square # <<>> /\ ValidateMultipleBound(square[1])
        THEN <<next, square[1]>>
        ELSE <<>>

\* sieve_primes(upper_bound) up to the sieving loop: the markers are
\* allocated, and iter::successors starts at Some((3, 9)) when the bound
\* calls for sieving; otherwise the iterator is returned at once.
SieveStart ==
    /\ sievePc = "call"
    /\ primes_markers' = InitialMarkers(upper_bound)
    /\ IF NeedsSieving(upper_bound)
       THEN /\ sievePc' = "sieving"
            /\ successor' = <<3, 9>>
       ELSE /\ sievePc' = "yielding"
            /\ successor' = <<>>
    /\ UNCHANGED <<upper_bound, position, yielded>>
    /\ UNCHANGED <<poolVars, cacherVars, iterVars>>

\* One item (i, x) of the successors in the for_each: the multiples of i
\* from x = i * i on are unmarked if i is still marked; the loop ends, and
\* the iterator is returned, when next_sucessor gives None.
SieveStep ==
    /\ sievePc = "sieving"
    /\ LET i == successor[1]
           x == successor[2]
       IN  /\ primes_markers' = IF Marked(primes_markers, i)
                                THEN Unmark(primes_markers, x, i)
                                ELSE primes_markers
           /\ successor' = NextSuccessor(i)
           /\ sievePc' = IF NextSuccessor(i) = <<>> THEN "yielding" ELSE "sieving"
    /\ UNCHANGED <<upper_bound, position, yielded>>
    /\ UNCHANGED <<poolVars, cacherVars, iterVars>>

\* The closure of filter_map on (index, marker).
FilterMap(x, marker) ==
    IF ~marker THEN <<>>
    ELSE IF x % 2 # 0 THEN <<x>>
    ELSE IF x = 2 THEN <<2>>
    ELSE <<>>

\* The indexes from position on that filter_map lets through.
Passing ==
    {x \in position..(Len(primes_markers) - 1) :
        FilterMap(x, Marked(primes_markers, x)) # <<>>}

\* Iterator::next on the iterator returned: enumerate() is advanced until
\* the closure returns Some, which is yielded; None when it runs out.
SieveNext ==
    /\ sievePc = "yielding"
    /\ IF Passing = {}
       THEN /\ sievePc' = "done"
            /\ position' = Len(primes_markers)
            /\ UNCHANGED yielded
       ELSE LET x == CHOOSE y \in Passing : \A z \in Passing : y <= z IN
            /\ yielded' = Append(yielded, FilterMap(x, Marked(primes_markers, x))[1])
            /\ position' = x + 1
            /\ UNCHANGED sievePc
    /\ UNCHANGED <<upper_bound, primes_markers, successor>>
    /\ UNCHANGED <<poolVars, cacherVars, iterVars>>

SieveNextAction ==
    \/ SieveStart
    \/ SieveStep
    \/ SieveNext

SieveCalled == PoolInit /\ CacherIdle /\ SieveInit /\ IterIdle

SieveSpec == SieveCalled /\ [][SieveNextAction]_vars

\* Largest interval handed to repeat_interval.
MaxInterval == 5

\* Number of items up to which an iterator is followed.
MaxItems == 70

\* Strings are sequences of characters; "" is <<>>.
Fizz == <<"F", "i", "z", "z">>

Buzz == <<"B", "u", "z", "z">>

Foo == <<"F", "o", "o">>

\* <&str as Default>::default()
DefaultStr == <<>>

\* The intervals fizzbuzz() passes to repeat_interval.
FizzInterval == 3

BuzzInterval == 5

\* The decimal digits, Digits[d + 1] being the character of d.
Digits == <<"0", "1", "2", "3", "4", "5", "6", "7", "8", "9">>

\* usize::to_string: the decimal digits of n, most significant first.
RECURSIVE ToString(_)
ToString(n) ==
    IF n < 10 THEN <<Digits[n + 1]>>
    ELSE Append(ToString(n \div 10), Digits[(n % 10) + 1])

\* fizzbuzz() or repeat_interval(repeat, interval) is called, in a build
\* with or without overflow checks.
IterInit ==
    /\ iterPc = "call"
    /\ factory \in [fn : {"fizzbuzz"}, repeat : {<<>>}, interval : {0}]
                   \cup [fn : {"repeat_interval"}, repeat : {Foo, Fizz},
                         interval : 0..MaxInterval]
    /\ overflow_checks \in BOOLEAN
    /\ range = 0
    /\ fizz = <<>>
    /\ buzz = <<>>
    /\ items = 0
    /\ item = <<>>

\* Mutant of TakeCount: the default is repeated interval times.
TakeCountWhole(interval) == <<interval>>

\* `interval - 1`: an underflow panics with overflow checks on (None here)
\* and wraps without them.
TakeCount(interval) ==
    IF interval >= 1 THEN <<interval - 1>>
    ELSE IF overflow_checks THEN <<>>
    ELSE <<UsizeMax>>

\* iter::repeat(default).take(n).chain(iter::once(repeat)): n is what Take
\* has left, once is the Option that Once holds.
Chained(n, repeat) == [n |-> n, once |-> <<repeat>>]

\* Chain::next: the defaults of Take first, then the value of Once, then
\* None.
ChainNext(c) ==
    IF c.n > 0 THEN [item |-> <<DefaultStr>>, iter |-> [c EXCEPT !.n = @ - 1]]
    ELSE IF c.once # <<>> THEN [item |-> c.once, iter |-> [c EXCEPT !.once = <<>>]]
    ELSE [item |-> <<>>, iter |-> c]

\* repeat_interval(repeat, interval) once interval - 1 is computed:
\* .cycle() keeps the original iterator and a clone it iterates.
RepeatInterval(repeat, n) ==
    [orig |-> Chained(n, repeat), iter |-> Chained(n, repeat)]

\* Cycle::next: when the clone is exhausted it is replaced by a new clone of
\* the original, which is asked instead.
CycleNext(c) ==
    LET first == ChainNext(c.iter)
        again == ChainNext(c.orig)
    IN  IF first.item # <<>>
        THEN [item |-> first.item, cycle |-> [c EXCEPT !.iter = first.iter]]
        ELSE [item |-> again.item, cycle |-> [c EXCEPT !.iter = again.iter]]

\* RangeFrom::next of `1usize..`: Step::forward on the start, which at
\* usize::MAX panics with overflow checks on (None here) and wraps without.
RangeFromNext(start) ==
    IF start < UsizeMax THEN [item |-> <<start>>, start |-> start + 1]
    ELSE IF overflow_checks THEN [item |-> <<>>, start |-> start]
    ELSE [item |-> <<start>>, start |-> 0]

\* The closure of map in fizzbuzz.
FizzBuzzMap(i, x, y) ==
    IF x = <<>> /\ y = <<>> THEN ToString(i) ELSE x \o y

\* The call of fizzbuzz(): the two repeat_intervals are zipped, and zipped
\* to the range starting at 1.
FizzBuzzCall ==
    /\ iterPc = "call"
    /\ factory.fn = "fizzbuzz"
    /\ fizz' = RepeatInterval(Fizz, TakeCount(FizzInterval)[1])
    /\ buzz' = RepeatInterval(Buzz, TakeCount(BuzzInterval)[1])
    /\ range' = 1
    /\ iterPc' = "iterating"
    /\ UNCHANGED <<factory, overflow_checks, items, item>>
    /\ UNCHANGED <<poolVars, cacherVars, sieveVars>>

\* Iterator::next on fizzbuzz(): Zip asks the range first, then the zipped
\* cycles, and map turns the triple into the item.
FizzBuzzNext ==
    /\ iterPc = "iterating"
    /\ factory.fn = "fizzbuzz"
    /\ items < MaxItems
    /\ LET i == RangeFromNext(range)
           x == CycleNext(fizz)
           y == CycleNext(buzz)
       IN  IF i.item = <<>>
           THEN /\ iterPc' = "panicked"
                /\ UNCHANGED <<range, fizz, buzz, items, item>>
           ELSE /\ range' = i.start
                /\ fizz' = x.cycle
                /\ buzz' = y.cycle
                /\ items' = items + 1
                /\ item' = FizzBuzzMap(i.item[1], x.item[1], y.item[1])
                /\ UNCHANGED iterPc
    /\ UNCHANGED <<factory, overflow_checks>>
    /\ UNCHANGED <<poolVars, cacherVars, sieveVars>>

\* The call of repeat_interval(repeat, interval).
RepeatIntervalCall ==
    /\ iterPc = "call"
    /\ factory.fn = "repeat_interval"
    /\ IF TakeCount(factory.interval) = <<>>
       THEN /\ iterPc' = "panicked"
            /\ UNCHANGED fizz
       ELSE /\ iterPc' = "iterating"
            /\ fizz' = RepeatInterval(factory.repeat, TakeCount(factory.interval)[1])
    /\ UNCHANGED <<factory, overflow_checks, range, buzz, items, item>>
    /\ UNCHANGED <<poolVars, cacherVars, sieveVars>>

\* Iterator::next on the iterator of repeat_interval.
RepeatIntervalNext ==
    /\ iterPc = "iterating"
    /\ factory.fn = "repeat_interval"
    /\ items < MaxItems
    /\ fizz' = CycleNext(fizz).cycle
    /\ item' = CycleNext(fizz).item[1]
    /\ items' = items + 1
    /\ UNCHANGED <<iterPc, factory, overflow_checks, range, buzz>>
    /\ UNCHANGED <<poolVars, cacherVars, sieveVars>>

IterNext ==
    \/ FizzBuzzCall
    \/ FizzBuzzNext
    \/ RepeatIntervalCall
    \/ RepeatIntervalNext

IterCalled == PoolInit /\ CacherIdle /\ SieveIdle /\ IterInit

IterSpec == IterCalled /\ [][IterNext]_vars

----------------------------------------------------------------------------

\* C1: every message sent (Continue or Break) has been returned by recv at
\* most once, and every submitted job has been called at most once.
C1_AtMostOnce ==
    \A m \in 1..Len(sent) : received[m] <= 1 /\ invoked[m] <= 1

\* C1 witness: two different workers are each running a different job, each
\* of which was received once.
C1_Witness ==
    \E v, w \in Workers :
        /\ v # w
        /\ workers[v].pc = "job" /\ workers[w].pc = "job"
        /\ workers[v].job # workers[w].job
        /\ received[workers[v].job] = 1 /\ received[workers[w].job] = 1

\* C2: when no submitted task faults, every submitted task is eventually
\* called, and no task is ever called twice, whatever the worker count and
\* however many tasks are submitted.
C2_EveryTaskInvokedOnce ==
    /\ [](\A m \in 1..Len(sent) : invoked[m] <= 1)
    /\ \A m \in 1..MaxTasks :
          Submitted(m) ~> ((Submitted(m) /\ invoked[m] = 1) \/ FaultySubmitted)

\* C2 witness: more tasks than workers were submitted, none faulty, and each
\* has been called exactly once.
C2_Witness ==
    /\ Len(workers) >= 1
    /\ ~FaultySubmitted
    /\ Cardinality({m \in 1..Len(sent) : Submitted(m)}) > Len(workers)
    /\ \A m \in 1..Len(sent) : Submitted(m) => invoked[m] = 1

\* C3: when drop has returned, every worker thread has ended.
C3_ShutdownAfterWorkers ==
    pc = "done" => \A w \in Workers : Finished(w) /\ ~handles[w]

\* C3 witness: drop has returned for a pool of at least two workers that
\* ran a task.
C3_Witness ==
    /\ pc = "done"
    /\ Len(workers) >= 2
    /\ \E m \in 1..Len(sent) : Submitted(m) /\ invoked[m] = 1

C5_StopsEqualWorkers ==
    /\ BreaksSent <= Len(workers)
    /\ pc \in {"joining", "done", "dropPanicked"} => BreaksSent = Len(workers)

\* C6 (as claimed): once drop is entered, every worker eventually has consumed
\* exactly one Break and has exited, and no worker ever consumes two.
C6_EveryWorkerStops ==
    /\ [](\A w \in Workers : workers[w].breaks <= 1)
    /\ (pc = "sending") ~>
          (\A w \in Workers : workers[w].pc = "exited" /\ workers[w].breaks = 1)

\* C7: new(0) returns the ZeroThreads error and creates no channel and no
\* worker; ZeroThreads is the only error, and only new(0) returns it.
C7_ZeroThreadsError ==
    /\ error \in {"none", "ZeroThreads"}
    /\ (pc # "start" /\ threads = 0) =>
          /\ pc = "err"
          /\ error = "ZeroThreads"
          /\ workers = <<>> /\ handles = <<>>
          /\ pipeline = 0 /\ ~senderAlive
          /\ queue = <<>> /\ sent = <<>>
    /\ (pc = "err" \/ error # "none") => threads = 0

\* C7 witness: new(0) has returned its error.
C7_Witness == pc = "err" /\ threads = 0 /\ error = "ZeroThreads"

\* C8: new(n) with n >= 1 succeeds and returns a pool of exactly n workers,
\* all given the Receiver of the one channel whose Sender the pool keeps,
\* each at the top of its loop (Idle).
C8_NewBuildsWorkers ==
    /\ [][(pc = "start" /\ pc' # "start" /\ threads' >= 1) =>
            /\ pc' = "live" /\ error' = "none"
            /\ pipeline' = 1 /\ senderAlive'
            /\ Len(workers') = threads'
            /\ \A w \in 1..threads' :
                  /\ workers'[w].pc = "lock"
                  /\ workers'[w].inbox = pipeline'
                  /\ handles'[w]]_vars
    /\ [](threads >= 1 =>
            /\ pc # "err"
            /\ Len(workers) = threads
            /\ \A w \in Workers : workers[w].inbox = pipeline)

\* C8 witness: new(n) has just returned a pool for the largest n.
C8_Witness ==
    /\ pc = "live"
    /\ threads = MaxThreads
    /\ Len(workers) = MaxThreads
    /\ sent = <<>>
    /\ \A w \in Workers : workers[w].pc = "lock"

\* C9 (as claimed): while the pool is live the send of execute cannot fail,
\* and execute never panics.
C9_ExecuteCannotFail ==
    /\ pc = "live" => ReceiverAlive
    /\ pc # "executePanicked"

\* C10: execute never blocks: in every state of a live pool it can be called
\* and ends at once, however long the queue is and whatever the workers are
\* doing; and when it has sent its message it has returned to the caller with
\* the job neither received nor called.
C10_ExecuteNeverBlocks ==
    /\ []((pc = "live" /\ Len(sent) < MaxTasks) =>
            ENABLED (\E faulty \in BOOLEAN : Execute(faulty)))
    /\ [][(pc = "live" /\ Len(sent') = Len(sent) + 1) =>
            /\ pc' = "live"
            /\ queue' = Append(queue, sent'[Len(sent')])
            /\ received'[Len(sent')] = 0
            /\ invoked'[Len(sent')] = 0]_vars

\* C10 witness: execute has returned with its message behind another queued
\* one while every worker is busy running a job.
C10_Witness ==
    /\ pc = "live"
    /\ Len(queue) >= 2
    /\ queue[Len(queue)].id = Len(sent)
    /\ \A w \in Workers : workers[w].pc = "job"

\* Workers that are between inbox.lock() and the end of the `let message`
\* statement, that is, inside the critical section of the Receiver.
InReceive == {w \in Workers : workers[w].pc = "recv"}

\* C11: at most one worker at a time is inside the critical section of the
\* Receiver, and it is the worker that holds the guard.
C11_ReceiverMutex ==
    /\ Cardinality(InReceive) <= 1
    /\ \A w \in InReceive : lockHolder = w

\* C11 witness: one worker holds the guard and waits in recv while another
\* worker waits for the lock.
C11_Witness ==
    \E v, w \in Workers :
        /\ v # w
        /\ workers[v].pc = "recv" /\ lockHolder = v
        /\ workers[w].pc = "lock"

\* C12: the guard is never held by a worker that is running a job: whoever
\* holds it is inside its receive.
C12_NoLockWhileExecuting ==
    /\ \A w \in Workers : workers[w].pc = "job" => lockHolder # w
    /\ lockHolder # 0 => workers[lockHolder].pc = "recv"

\* C12 witness: while one worker is running a job another worker holds the
\* guard and has a job to dequeue.
C12_Witness ==
    \E v, w \in Workers :
        /\ v # w
        /\ workers[v].pc = "job"
        /\ workers[w].pc = "recv" /\ lockHolder = w
        /\ queue # <<>>

\* The worker states of the specification: Idle is the top of the loop up to
\* the return of recv, Executing is inside job(), Terminated is a thread that
\* has ended.
WorkerState(w) ==
    CASE workers[w].pc \in {"lock", "recv"} -> "Idle"
      [] workers[w].pc = "job" -> "Executing"
      [] OTHER -> "Terminated"

\* C13 (as claimed): a worker only goes from Idle to Executing, from Executing
\* back to Idle, and from Idle to Terminated by consuming a Break; a
\* Terminated worker stays Terminated and receives nothing more.
C13_WorkerTransitions ==
    [][\A w \in Workers :
         LET from == WorkerState(w)
             to == (WorkerState(w))'
         IN  \/ from = to /\ (from = "Terminated" => workers'[w] = workers[w])
             \/ from = "Idle" /\ to = "Executing"
             \/ from = "Executing" /\ to = "Idle"
             \/ /\ from = "Idle" /\ to = "Terminated"
                /\ workers'[w].breaks = workers[w].breaks + 1]_vars

\* C14 (as claimed): a worker whose job faults goes back to the top of its
\* loop, so it keeps receiving messages.
C14_FaultContained ==
    [][\A w \in Workers :
         (workers[w].pc = "job" /\ sent[workers[w].job].faulty
            /\ workers'[w].pc # "job") => workers'[w].pc = "lock"]_vars

\* C15: no Continue is sent after the first Break: in the order of sending,
\* every message behind a Break is a Break.
C15_NoExecuteAfterShutdown ==
    \A i, j \in 1..Len(sent) :
        (i < j /\ sent[i].kind = "Break") => sent[j].kind = "Break"

\* C15 witness: tasks were submitted, then drop sent its Breaks and returned.
C15_Witness ==
    /\ pc = "done"
    /\ Len(sent) >= 2
    /\ sent[1].kind = "Continue"
    /\ sent[Len(sent)].kind = "Break"

\* C16: a pool that exists has at least one worker, as many as new was asked
\* for, and no step after new changes that number.
C16_WorkerCountFixed ==
    /\ [](pc \notin {"start", "err"} =>
            /\ threads >= 1
            /\ Len(workers) = threads
            /\ Len(handles) = threads)
    /\ [][pc # "start" =>
            /\ threads' = threads
            /\ Len(workers') = Len(workers)]_vars

\* C16 witness: a live pool of two workers still has two workers after tasks
\* were submitted and run, one of which killed its thread.
C16_Witness ==
    /\ pc = "live"
    /\ threads = 2 /\ Len(workers) = 2
    /\ \E m \in 1..Len(sent) : invoked[m] = 1
    /\ \E w \in Workers : workers[w].pc = "panicked"

\* A Continue is waiting in the channel.
RunPending == \E i \in 1..Len(queue) : queue[i].kind = "Continue"

\* Worker w consumes a Break in this step.
ConsumesBreak(w) == Recv(w) /\ workers'[w].breaks = workers[w].breaks + 1

\* C17 (as claimed): a Break is not held back by the Continues sent before
\* it: a worker that is in its receive while a Break is queued can consume
\* that Break although a Continue is still pending.
C17_StopOvertakesRun ==
    \A w \in Workers :
        (/\ workers[w].pc = "recv"
         /\ RunPending
         /\ \E i \in 1..Len(queue) : queue[i].kind = "Break")
            => ENABLED ConsumesBreak(w)

\* C17 (amended): drop sends its Breaks without waiting for the channel to
\* empty, but behind every Continue; once any worker has consumed a Break no
\* Continue is pending, and every Continue has been received.
C17_StopAfterPendingRuns ==
    (\E w \in Workers : workers[w].breaks >= 1) =>
        /\ ~RunPending
        /\ \A m \in 1..Len(sent) : Submitted(m) => received[m] = 1

\* C17 witness: one worker has consumed a Break while another worker is
\* still running a task that was submitted before drop.
C17_Witness ==
    /\ BreaksSent >= 1
    /\ \E v, w \in Workers :
          /\ workers[v].breaks = 1
          /\ workers[w].pc = "job"

\* C18: messages are received in the order in which they were sent: when a
\* message has been received, every message sent before it has been too.
C18_FifoDequeue ==
    \A i, j \in 1..Len(sent) :
        (i < j /\ received[j] >= 1) => received[i] >= 1

\* C18 witness: the second task submitted has been received and has finished
\* while the first one, received before it, is still running.
C18_Witness ==
    /\ Len(sent) >= 2
    /\ Submitted(1) /\ Submitted(2)
    /\ \E v, w \in Workers :
          /\ v # w
          /\ workers[v].pc = "job" /\ workers[v].job = 1
          /\ workers[w].pc = "lock" /\ workers[w].job = 2

\* How many times message m is waiting in the channel.
Queued(m) == Cardinality({i \in 1..Len(queue) : queue[i].id = m})

\* C19: with several caller threads inside execute at once, every send of a
\* call appends exactly the one message of that call behind the messages
\* already queued, and every message ever sent is, unaltered, either waiting
\* in the channel once or received once: none is lost, duplicated or changed.
C19_ConcurrentSends ==
    /\ [](\A m \in 1..Len(sent) :
            /\ sent[m].id = m
            /\ Queued(m) + received[m] = 1)
    /\ [](\A i \in 1..Len(queue) : queue[i] = sent[queue[i].id])
    /\ [][\A c \in 1..MaxCallers :
            (c \in InExecute /\ callers'[c] = "idle") =>
                /\ Len(sent') = Len(sent) + 1
                /\ sent'[Len(sent')] =
                      ContinueMsg(Len(sent'), callers[c] = "faulty", c)
                /\ queue' = Append(queue, sent'[Len(sent')])]_vars

\* C19 witness: a caller thread is inside execute while the message that
\* another caller thread has sent meanwhile waits in the channel.
C19_Witness ==
    \E c \in InExecute, i \in 1..Len(queue) :
        queue[i].kind = "Continue" /\ queue[i].from # c

\* q is p with messages appended to it.
IsPrefix(p, q) == Len(p) <= Len(q) /\ SubSeq(q, 1, Len(p)) = p

\* C20: there is no cancellation.  A worker that is running a job keeps that
\* job until the job itself ends (it returns, or it panics), and only then
\* receives again or ends.  A message leaves the channel only as the head
\* that a worker receives, and a Continue so received is called by that
\* worker; the steps of the caller (execute, drop) only append.
C20_NoCancellation ==
    [][/\ \A w \in Workers :
            workers[w].pc = "job" =>
               \/ workers'[w] = workers[w]
               \/ /\ workers'[w].job = workers[w].job
                  /\ workers'[w].pc =
                        IF sent[workers[w].job].faulty THEN "panicked" ELSE "lock"
       /\ queue' # queue =>
            \/ IsPrefix(queue, queue')
            \/ /\ queue # <<>>
               /\ queue' = Tail(queue)
               /\ received'[Head(queue).id] = received[Head(queue).id] + 1
               /\ Head(queue).kind = "Continue" =>
                     \E w \in Workers :
                        /\ workers[w].pc = "recv"
                        /\ workers'[w].pc = "job"
                        /\ workers'[w].job = Head(queue).id
       /\ (pc' # pc \/ sent' # sent) => IsPrefix(queue, queue')]_vars

\* C20 witness: in the middle of drop's send loop a worker is still running
\* its job and a Continue is still waiting in the channel.
C20_Witness ==
    /\ pc = "sending"
    /\ BreaksSent >= 1
    /\ RunPending
    /\ \E w \in Workers : workers[w].pc = "job"

\* C21 (as claimed): no send is made on a channel whose Receiver is dropped,
\* neither by execute nor by the Break loop of drop (a drop that panicked
\* before its last Break did so in a send), and no recv of a worker has
\* returned Err (which is what poisons the mutex).
C21_NoChannelFailure ==
    /\ pc # "executePanicked"
    /\ pc = "dropPanicked" => BreaksSent = BreaksToSend
    /\ ~poisoned
    /\ \A w \in Workers :
          workers[w].pc = "panicked" => sent[workers[w].job].faulty

\* C22: recv blocks while the channel is empty: a worker at the top of its
\* loop (Idle) stays there, receiving nothing, as long as no message is
\* queued, with no step that gives up; and a recv that returns has removed
\* exactly the message at the head of the channel, which is a message that
\* was sent, and hands that message to the worker.
C22_ReceiveBlocks ==
    [][\A w \in Workers :
         /\ (WorkerState(w) = "Idle" /\ queue = <<>>) =>
               /\ (WorkerState(w))' = "Idle"
               /\ workers'[w].job = workers[w].job
               /\ workers'[w].breaks = workers[w].breaks
               /\ \A m \in 1..Len(sent) : received'[m] = received[m]
         /\ (workers[w].pc = "recv" /\ workers'[w].pc # "recv") =>
               /\ queue # <<>>
               /\ Head(queue) = sent[Head(queue).id]
               /\ queue' = Tail(queue)
               /\ received' = [received EXCEPT ![Head(queue).id] = @ + 1]
               /\ workers'[w].pc = "job" =>
                     /\ Head(queue).kind = "Continue"
                     /\ workers'[w].job = Head(queue).id
               /\ workers'[w].pc = "exited" => Head(queue).kind = "Break"
               /\ workers'[w].pc \in {"job", "exited"}]_vars

\* C22 witness: a worker that has run a job is back in recv, holding the
\* guard, with the channel empty and the Sender alive; the other worker
\* waits for the lock.
C22_Witness ==
    /\ pc = "live"
    /\ queue = <<>>
    /\ \E v, w \in Workers :
          /\ v # w
          /\ workers[w].pc = "recv" /\ workers[w].job # 0
          /\ workers[v].pc = "lock"

\* C23: value_from(k) returns the value the cache holds for k afterwards
\* and changes no other entry.  On a vacant key that value is the result of
\* the instancer for k, which ran once; on a cached key it is the value
\* already cached, the instancer did not run and the cache is unchanged.
\* So value_from returns the instancer's result whenever the entries cached
\* are the instancer's results, and a value_from(k) that directly follows a
\* value_from(k) returns the same value.  The instancer has run at most once
\* for a key since the key was last absent from the cache, and exactly once
\* for every key cached.
C23_ValueFromCaches ==
    /\ [][lastCall'.op = "value_from" =>
            LET k == lastCall'.key[1] IN
            /\ k \in DOMAIN cache'
            /\ lastCall'.ret = <<cache'[k]>>
            /\ \A j \in DOMAIN cache : j \in DOMAIN cache' /\ cache'[j] = cache[j]
            /\ DOMAIN cache' = DOMAIN cache \cup {k}
            /\ IF k \in DOMAIN cache
               THEN /\ ~lastCall'.ran
                    /\ lastCall'.ret = <<cache[k]>>
                    /\ instanced' = instanced
                    /\ cache' = cache
               ELSE /\ lastCall'.ran
                    /\ lastCall'.ret = <<Instancer(k)>>
                    /\ instanced' = [instanced EXCEPT ![k] = @ + 1]
            /\ (\A j \in DOMAIN cache : cache[j] = Instancer(j)) =>
                  lastCall'.ret = <<Instancer(k)>>
            /\ (lastCall.op = "value_from" /\ lastCall.key = <<k>>) =>
                  /\ ~lastCall'.ran
                  /\ lastCall'.ret = lastCall.ret]_vars
    /\ [](lastCall.op # "idle" =>
            \A k \in Keys :
               /\ instanced[k] <= 1
               /\ k \in DOMAIN cache <=> instanced[k] = 1)

\* C23 witness: value_from has just returned the instancer's result for a
\* key that was cached already, without running the instancer, while as
\* many keys as there are are cached.
C23_Witness ==
    /\ lastCall.op = "value_from"
    /\ ~lastCall.ran
    /\ lastCall.ret = <<Instancer(lastCall.key[1])>>
    /\ DOMAIN cache = Keys
    /\ \A k \in Keys : instanced[k] = 1

\* C24 (as claimed): every entry of the cache holds the result of the
\* instancer for its key.
C24_PledgeOfCorrectness ==
    \A k \in DOMAIN cache : cache[k] = Instancer(k)

\* n is a prime number.
IsPrime(n) == n >= 2 /\ \A d \in 2..(n - 1) : n % d # 0

RECURSIVE DecimalValue(_)
DecimalValue(s) ==
    IF s = <<>> THEN 0
    ELSE DecimalValue(SubSeq(s, 1, Len(s) - 1)) * 10
            + (CHOOSE d \in 0..9 : Digits[d + 1] = s[Len(s)])

\* s is the decimal string of n: digits only, no leading zero, denoting n.
IsDecimalOf(s, n) ==
    /\ Len(s) >= 1
    /\ \A j \in 1..Len(s) : \E d \in 0..9 : Digits[d + 1] = s[j]
    /\ Len(s) > 1 => s[1] # "0"
    /\ DecimalValue(s) = n

\* s is the element of the fizzbuzz sequence at index i, the number
\* written out being n.
IsFizzBuzzOf(s, i, n) ==
    IF i % 15 = 0 THEN s = <<"F", "i", "z", "z", "B", "u", "z", "z">>
    ELSE IF i % 3 = 0 THEN s = <<"F", "i", "z", "z">>
    ELSE IF i % 5 = 0 THEN s = <<"B", "u", "z", "z">>
    ELSE IsDecimalOf(s, n)

\* The item at position i of repeat_interval(repeat, interval) is repeat at
\* the multiples of interval and the default elsewhere.
RepeatIntervalItems ==
    (factory.fn = "repeat_interval" /\ factory.interval >= 1) =>
        /\ iterPc # "panicked"
        /\ items >= 1 =>
              item = IF items % factory.interval = 0 THEN factory.repeat
                     ELSE DefaultStr

\* C26 (as claimed): for every i >= 1 fizzbuzz() has an i-th element, which
\* is FizzBuzz, Fizz, Buzz or the decimal string of i; and repeat_interval
\* yields as stated.
C26_FizzBuzzEveryIndex ==
    /\ factory.fn = "fizzbuzz" =>
          /\ iterPc # "panicked"
          /\ items >= 1 => IsFizzBuzzOf(item, items, items)
    /\ RepeatIntervalItems

\* C26 (amended): the elements of fizzbuzz() below usize::MAX are as
\* claimed.  The call of next for element usize::MAX panics with overflow
\* checks on, and nowhere else does fizzbuzz panic; without them that
\* element is as claimed and the range then wraps, so that from there on
\* Fizz and Buzz still fall on the multiples of 3 and 5 but the numbers
\* written out are i modulo 2^UsizeBits.  repeat_interval yields as stated.
C26_FizzBuzzWithinUsize ==
    /\ factory.fn = "fizzbuzz" =>
          /\ iterPc = "panicked" =>
                overflow_checks /\ items = UsizeMax - 1 /\ range = UsizeMax
          /\ (items >= 1 /\ items < UsizeMax) => IsFizzBuzzOf(item, items, items)
          /\ items >= UsizeMax =>
                /\ ~overflow_checks
                /\ IsFizzBuzzOf(item, items, items % (UsizeMax + 1))
    /\ RepeatIntervalItems

\* C26 witness: fizzbuzz() has yielded "FizzBuzz" as its 30th element, after
\* numbers of two digits.
C26_Witness ==
    /\ factory.fn = "fizzbuzz"
    /\ iterPc = "iterating"
    /\ items = 30
    /\ item = <<"F", "i", "z", "z", "B", "u", "z", "z">>

\* C27: drop is two-phase.  While drop is in its send loop no thread has
\* been joined; whenever drop waits in join, or has joined a thread, every
\* Break, one per worker, has been sent; and the handles are taken one at a
\* time in the order of the workers.
C27_TwoPhaseShutdown ==
    /\ [](pc = "sending" => joined = 0 /\ \A w \in Workers : handles[w])
    /\ []((pc = "joining" \/ joined > 0 \/ \E w \in Workers : ~handles[w])
            => BreaksSent = Len(workers))
    /\ [](\A w \in Workers : ~handles[w] => \A v \in 1..w : ~handles[v])
    /\ [][handles' # handles /\ pc # "start" =>
            /\ pc = "joining"
            /\ \E w \in Workers :
                  /\ handles[w] /\ \A v \in 1..(w - 1) : ~handles[v]
                  /\ handles' = [handles EXCEPT ![w] = FALSE]
                  /\ Finished(w)]_vars

\* C27 witness: drop has joined the first worker and waits for the second,
\* which is still running a job, both Breaks having been sent.
C27_Witness ==
    /\ pc = "joining"
    /\ Len(workers) = 2
    /\ joined = 1 /\ ~handles[1] /\ handles[2]
    /\ workers[2].pc = "job"
    /\ BreaksSent = 2

\* C28: a call of execute that sends its message appends that one Continue,
\* carrying the job it was given, at the tail of the channel and changes
\* nothing else: the queued messages, the workers, the guard, the handles
\* and the position of the caller stay as they were.
C28_ExecuteFrame ==
    [][(pc = "live" /\ sent' # sent) =>
         /\ \E faulty \in BOOLEAN :
               /\ sent' = Append(sent, ContinueMsg(Len(sent) + 1, faulty, 1))
               /\ queue' = Append(queue, ContinueMsg(Len(sent) + 1, faulty, 1))
         /\ received' = Append(received, 0)
         /\ invoked' = Append(invoked, 0)
         /\ UNCHANGED <<pc, threads, error, pipeline, senderAlive, workers,
                        handles, lockHolder, poisoned, joined>>]_vars

\* C28 witness: execute has appended its message behind a queued one while
\* one worker holds the guard in recv and the other runs a job.
C28_Witness ==
    /\ pc = "live"
    /\ Len(queue) = 2
    /\ queue[2].id = Len(sent)
    /\ \E v, w \in Workers :
          /\ workers[v].pc = "recv" /\ lockHolder = v
          /\ workers[w].pc = "job"

\* C29: a job that panics ends the thread of the worker that called it and
\* touches nothing else: the other workers, the channel and the guard are as
\* before.  The dead worker never moves again, it does not hold the guard
\* and the mutex is not poisoned; every other worker can still take the lock
\* when it is free and can still dequeue when it holds the guard and a
\* message is queued.
C29_FaultKillsOnlyItsWorker ==
    /\ [][\A w \in Workers :
            /\ (workers[w].pc = "job" /\ workers'[w].pc = "panicked") =>
                  /\ sent[workers[w].job].faulty
                  /\ \A v \in Workers \ {w} : workers'[v] = workers[v]
                  /\ UNCHANGED <<queue, lockHolder, poisoned, received, invoked>>
            /\ workers[w].pc = "panicked" => workers'[w] = workers[w]]_vars
    /\ []((\E w \in Workers : workers[w].pc = "panicked") =>
            /\ ~poisoned
            /\ lockHolder = 0 \/ workers[lockHolder].pc = "recv"
            /\ \A v \in Workers :
                  /\ (workers[v].pc = "lock" /\ lockHolder = 0) => ENABLED Lock(v)
                  /\ (workers[v].pc = "recv" /\ queue # <<>>) => ENABLED Recv(v)
                  /\ (workers[v].pc = "job" /\ ~sent[workers[v].job].faulty)
                        => ENABLED FinishJob(v))

\* C29 witness: one worker was killed by its job, and the other worker has
\* since received and is running a job that was sent after the faulty one.
C29_Witness ==
    \E v, w \in Workers :
        /\ workers[w].pc = "panicked"
        /\ workers[v].pc = "job"
        /\ workers[v].job > workers[w].job

\* C30: when drop has returned and no submitted task faulted, every task
\* submitted has been received once, called once and has returned: no
\* Continue is left in the channel and no worker is inside a job.
C30_DrainBeforeStop ==
    (pc = "done" /\ ~FaultySubmitted) =>
        /\ ~RunPending
        /\ \A m \in 1..Len(sent) :
              Submitted(m) => received[m] = 1 /\ invoked[m] = 1
        /\ \A w \in Workers : workers[w].pc = "exited"

\* C30 witness: drop has returned after as many tasks as can be submitted
\* were queued, more than there are workers, and each was called once.
C30_Witness ==
    /\ pc = "done"
    /\ Cardinality({m \in 1..Len(sent) : Submitted(m)}) = MaxTasks
    /\ Len(workers) < MaxTasks
    /\ \A m \in 1..MaxTasks : invoked[m] = 1

\* Number of Break messages the workers have consumed.
RECURSIVE BreaksConsumedUpTo(_)
BreaksConsumedUpTo(w) ==
    IF w = 0 THEN 0 ELSE BreaksConsumedUpTo(w - 1) + workers[w].breaks

BreaksConsumed == BreaksConsumedUpTo(Len(workers))

\* C31: when drop has returned and no submitted task faulted, the channel is
\* empty: every message ever sent, Continue or Break, has been received
\* once, and the workers have consumed as many Breaks as there are workers,
\* which is as many as were sent.
C31_ChannelEmptyAtReturn ==
    (pc = "done" /\ ~FaultySubmitted) =>
        /\ queue = <<>>
        /\ \A m \in 1..Len(sent) : received[m] = 1
        /\ BreaksConsumed = Len(workers)
        /\ BreaksConsumed = BreaksSent

\* C31 witness: drop has returned for the largest pool after tasks were
\* run, the channel is empty and each worker has consumed its Break.
C31_Witness ==
    /\ pc = "done"
    /\ Len(workers) = MaxThreads
    /\ queue = <<>>
    /\ \E m \in 1..Len(sent) : Submitted(m)
    /\ \A w \in Workers : workers[w].breaks = 1

\* Workers whose thread was killed by its job.
Dead == {w \in Workers : workers[w].pc = "panicked"}

\* Number of Break messages waiting in the channel.
BreaksQueued == Cardinality({i \in 1..Len(queue) : queue[i].kind = "Break"})

\* C32 (as claimed): once a job has killed a worker, drop does not return;
\* when drop panics it does so in its join of a dead worker, with every
\* Break sent; and a dead worker has consumed no Break, its Break staying
\* in the channel.
C32_JoinReportsFault ==
    Dead # {} =>
        /\ pc # "done"
        /\ pc = "dropPanicked" =>
              /\ BreaksSent = BreaksToSend
              /\ joined + 1 \in Dead
              /\ ~handles[joined + 1]
        /\ \A w \in Dead : workers[w].breaks = 0
        /\ BreaksSent = BreaksToSend => BreaksQueued >= Cardinality(Dead)

\* C32 (amended): once a job has killed a worker, drop does not return.  It
\* panics either in its join of the first dead worker in the order of the
\* workers, after every Break was sent and the workers before that one were
\* joined, the later ones not being joined; or, when every worker thread
\* has ended before the last Break is sent, already in the send of a Break,
\* before any join.  A dead worker has consumed no Break, and once every
\* Break is sent at least one Break per dead worker stays in the channel.
C32_ShutdownAbortsOnFault ==
    /\ Dead # {} =>
          /\ pc # "done"
          /\ \A w \in Dead : workers[w].breaks = 0
          /\ BreaksSent = BreaksToSend => BreaksQueued >= Cardinality(Dead)
    /\ pc = "dropPanicked" =>
          /\ Dead # {}
          /\ \/ /\ BreaksSent = BreaksToSend
                /\ joined + 1 \in Dead
                /\ ~handles[joined + 1]
                /\ \A v \in 1..joined : workers[v].pc = "exited" /\ ~handles[v]
                /\ \A v \in (joined + 2)..Len(workers) : handles[v]
             \/ /\ BreaksSent < BreaksToSend
                /\ ~ReceiverAlive
                /\ joined = 0
                /\ \A v \in Workers : handles[v]

\* C32 witness: drop has panicked in its join of the first worker, which a
\* job had killed, while the second worker, not joined, is still running a
\* job and both Breaks wait in the channel.
C32_Witness ==
    /\ pc = "dropPanicked"
    /\ Len(workers) = 2
    /\ workers[1].pc = "panicked"
    /\ joined = 0 /\ ~handles[1] /\ handles[2]
    /\ workers[2].pc = "job"
    /\ BreaksQueued = 2

\* Workers that are inside job().
Executing == {w \in Workers : workers[w].pc = "job"}

\* C33: the jobs being executed are never more than the workers, which are
\* as many as new was asked for, and the workers executing execute different
\* jobs, each one the single job it received last.
C33_AtMostNExecuting ==
    /\ Cardinality(Executing) <= Len(workers)
    /\ Cardinality(Executing) <= threads
    /\ Cardinality({workers[w].job : w \in Executing}) = Cardinality(Executing)
    /\ \A w \in Executing :
          /\ Submitted(workers[w].job)
          /\ invoked[workers[w].job] = 1

\* C33 witness: in a pool of two workers both are inside a job at once, the
\* job submitted first still running while the second worker runs a later
\* one.
C33_Witness ==
    /\ threads = 2
    /\ Cardinality(Executing) = 2
    /\ \E w \in Executing : workers[w].job = 1

\* C34: in a pool of one worker the jobs are called in the order of their
\* submission, one after the other: the worker enters the job sent right
\* after the one it ran before, and when a job has been called every job
\* sent before it has been called and has returned.
C34_SingleWorkerSequential ==
    /\ [](threads = 1 =>
            \A i, j \in 1..Len(sent) :
               (i < j /\ Submitted(j) /\ invoked[j] >= 1) =>
                  /\ invoked[i] = 1
                  /\ ~sent[i].faulty
                  /\ \A w \in Executing : workers[w].job # i)
    /\ [][(threads = 1 /\ Len(workers) = 1 /\ Len(workers') = 1
             /\ workers[1].pc # "job" /\ workers'[1].pc = "job") =>
            workers'[1].job = workers[1].job + 1]_vars

\* C34 witness: the single worker is running the third job submitted, the
\* first two having been called once each.
C34_Witness ==
    /\ threads = 1
    /\ Len(sent) >= 3
    /\ workers[1].pc = "job" /\ workers[1].job = 3
    /\ invoked[1] = 1 /\ invoked[2] = 1

\* C35 (as claimed): a worker inside recv holds the guard, so at most one
\* worker is inside recv and every other Idle worker is at the lock; and
\* whenever a message is queued while some worker is Idle, that message is
\* eventually received.
C35_NoLostWakeup ==
    /\ [](\A w \in Workers :
            workers[w].pc = "recv" =>
               /\ lockHolder = w
               /\ \A v \in Workers \ {w} :
                     WorkerState(v) = "Idle" => workers[v].pc = "lock")
    /\ \A m \in 1..(MaxTasks + MaxThreads) :
          (/\ m <= Len(sent)
           /\ Queued(m) = 1
           /\ \E w \in Workers : WorkerState(w) = "Idle")
             ~> (m <= Len(sent) /\ received[m] = 1)

====
